---- MODULE Spec2Model ----
(***************************************************************************)
(* Model of statement.py: the billing strategies (TragedyBilling,          *)
(* ComedyBilling), their selection by billing_strategy, the fold of        *)
(* calculate over the invoice's performances, and the two renderers.       *)
(*                                                                         *)
(* Python exceptions are modelled as values: a call either returns         *)
(* [ok |-> TRUE, value |-> v] or raises [ok |-> FALSE, exc |-> e], and an  *)
(* exception nobody catches ends the computation in pc = "raised".         *)
(***************************************************************************)
EXTENDS Integers, Sequences, FiniteSets, TLC

VARIABLES
    plays,      \* calculate's argument plays: AllPlays (dict playID -> Play)
    invoice,    \* calculate's argument invoice: Invoice
    entry,      \* the function the caller invoked
    pc,         \* position of the call
    idx,        \* position of the generator over invoice["performances"]
    total,      \* accumulator of functools.reduce: <<lines, credits>>
    stmt,       \* <<>> or <<s>>: the Statement calculate returned
    err,        \* <<>> or <<e>>: the exception that reached the caller
    output,     \* <<>> or <<str>>: the string statement / html_statement returned
    rkind,      \* strategy class under test (rule specification)
    ra,         \* first audience under test
    rb,         \* second audience under test
    rop,        \* method applied to both: "", "amount" or "credits"
    rva,        \* result of the method at audience ra
    rvb         \* result of the method at audience rb

vars == <<plays, invoice, entry, pc, idx, total, stmt, err, output,
          rkind, ra, rb, rop, rva, rvb>>

calcVars == <<plays, invoice, entry, pc, idx, total, stmt, err, output>>
ruleVars == <<rkind, ra, rb, rop, rva, rvb>>

----------------------------------------------------------------------------
(* Bounds and input sets *)

MaxAudience == 60
MaxPerfs == 3

PlayIDs == {"hamlet", "as-like", "henry-v"}
PlayTypes == {"tragedy", "comedy", "history"}
InvoiceAudiences == {0, 35}
EntryPoints == {"calculate", "statement", "html_statement"}

PlayName(id) ==
    CASE id = "hamlet" -> "Hamlet"
      [] id = "as-like" -> "As You Like It"
      [] OTHER -> "Henry V"

\* Every catalog over a subset of PlayIDs, each play with any type tag.
Catalogs ==
    UNION { [ids -> PlayTypes] : ids \in SUBSET PlayIDs }

CatalogOf(types) ==
    [id \in DOMAIN types |-> [name |-> PlayName(id), type |-> types[id]]]

Performances == [playID : PlayIDs, audience : InvoiceAudiences]

PerformanceLists ==
    UNION { [1..n -> Performances] : n \in 0..MaxPerfs }

----------------------------------------------------------------------------
(* Exceptions as values *)

Returns(v) == [ok |-> TRUE, value |-> v]
Raises(type, arg) == [ok |-> FALSE, exc |-> [type |-> type, arg |-> arg]]

----------------------------------------------------------------------------
(* Data classes *)

StatementLine(play_name, amount, seats) ==
    [play_name |-> play_name, amount |-> amount, seats |-> seats]

Statement(customer, statement_lines, credits) ==
    [customer |-> customer, statement_lines |-> statement_lines,
     credits |-> credits]

RECURSIVE SumAmounts(_)
SumAmounts(ls) ==
    IF ls = <<>> THEN 0 ELSE ls[1].amount + SumAmounts(Tail(ls))

\* Statement.total
Statement_total(self) == SumAmounts(self.statement_lines)

----------------------------------------------------------------------------
(* Billing strategies *)

BillingStrategy(kind, play, perf) ==
    [kind |-> kind, play |-> play, perf |-> perf]

BillingStrategy_name(self) == self.play.name
BillingStrategy_audience(self) == self.perf.audience

Max(x, y) == IF x >= y THEN x ELSE y

BillingStrategy_credits(self) ==
    Max(BillingStrategy_audience(self) - 30, 0)

\* Variant: the surcharge counts every seat instead of the seats above 30.
TragedyBilling_amount_AllSeats(self) ==
    LET audience == BillingStrategy_audience(self)
        amount0 == 40000
    IN  IF audience > 30
        THEN amount0 + 1000 * audience
        ELSE amount0

TragedyBilling_amount(self) ==
    LET audience == BillingStrategy_audience(self)
        amount0 == 40000
    IN  IF audience > 30
        THEN amount0 + 1000 * (audience - 30)
        ELSE amount0

\* Variant: the surcharge already applies at 20 seats.
ComedyBilling_amount_From20(self) ==
    LET audience == BillingStrategy_audience(self)
        amount0 == 30000 + 300 * audience
    IN  IF audience >= 20
        THEN amount0 + (10000 + 500 * (audience - 20))
        ELSE amount0

\* Variant: the surcharge replaces the base amount instead of adding to it.
ComedyBilling_amount_Assign(self) ==
    LET audience == BillingStrategy_audience(self)
        amount0 == 30000 + 300 * audience
    IN  IF audience > 20
        THEN 10000 + 500 * (audience - 20)
        ELSE amount0

ComedyBilling_amount(self) ==
    LET audience == BillingStrategy_audience(self)
        amount0 == 30000 + 300 * audience
    IN  IF audience > 20
        THEN amount0 + (10000 + 500 * (audience - 20))
        ELSE amount0

\* Variant: the attendance bonus is only granted above 30 seats.
ComedyBilling_credits_Above30(self) ==
    BillingStrategy_credits(self)
    + (IF BillingStrategy_audience(self) > 30
       THEN BillingStrategy_audience(self) \div 5 ELSE 0)

ComedyBilling_credits(self) ==
    BillingStrategy_credits(self) + (BillingStrategy_audience(self) \div 5)

\* Method resolution: the class of the object picks the implementation.
amount(self) ==
    IF self.kind = "TragedyBilling"
    THEN TragedyBilling_amount(self)
    ELSE ComedyBilling_amount(self)

credits(self) ==
    IF self.kind = "ComedyBilling"
    THEN ComedyBilling_credits(self)
    ELSE BillingStrategy_credits(self)

statement_line(self) ==
    StatementLine(BillingStrategy_name(self), amount(self),
                  BillingStrategy_audience(self))

\* Variant: a missing play is looked up with a default (dict.get).
billing_strategy_DefaultPlay(ps, perf) ==
    LET play == IF perf.playID \in DOMAIN ps THEN ps[perf.playID]
                ELSE [name |-> "", type |-> "tragedy"]
        play_type == play.type
    IN  CASE play_type = "tragedy" ->
               Returns(BillingStrategy("TragedyBilling", play, perf))
          [] play_type = "comedy" ->
               Returns(BillingStrategy("ComedyBilling", play, perf))
          [] OTHER ->
               Raises("ValueError", "unknown type: " \o play_type)

\* Variant: the default case of the match falls back to TragedyBilling.
billing_strategy_DefaultRule(ps, perf) ==
    IF perf.playID \notin DOMAIN ps
    THEN Raises("KeyError", perf.playID)
    ELSE LET play_type == ps[perf.playID].type
         IN  CASE play_type = "comedy" ->
                    Returns(BillingStrategy("ComedyBilling", ps[perf.playID], perf))
               [] OTHER ->
                    Returns(BillingStrategy("TragedyBilling", ps[perf.playID], perf))

billing_strategy(ps, perf) ==
    IF perf.playID \notin DOMAIN ps
    THEN Raises("KeyError", perf.playID)
    ELSE LET play_type == ps[perf.playID].type
         IN  CASE play_type = "tragedy" ->
                    Returns(BillingStrategy("TragedyBilling", ps[perf.playID], perf))
               [] play_type = "comedy" ->
                    Returns(BillingStrategy("ComedyBilling", ps[perf.playID], perf))
               [] OTHER ->
                    Raises("ValueError", "unknown type: " \o play_type)

\* Variant: the credits of the strategy overwrite the running sum.
reduce_function_LastCredits(tot, strategy) ==
    <<tot[1] \o <<statement_line(strategy)>>, credits(strategy)>>

\* Variant: the new line is put in front of the earlier ones.
reduce_function_Prepend(tot, strategy) ==
    <<<<statement_line(strategy)>> \o tot[1], tot[2] + credits(strategy)>>

\* The lambda calculate folds with.
reduce_function(tot, strategy) ==
    <<tot[1] \o <<statement_line(strategy)>>, tot[2] + credits(strategy)>>

----------------------------------------------------------------------------
(* Rendering *)

Pad(n, width) ==
    LET s == ToString(n)
    IN  IF width = 3 /\ n < 10 THEN "00" \o s
        ELSE IF n < 10 THEN "0" \o s
        ELSE IF width = 3 /\ n < 100 THEN "0" \o s
        ELSE s

RECURSIVE Grouped(_)
Grouped(n) ==
    IF n < 1000 THEN ToString(n)
    ELSE Grouped(n \div 1000) \o "," \o Pad(n % 1000, 3)

\* f"${cents/100:0,.2f}" for cents >= 0: the quotient with thousands
\* separators and exactly two decimals.
format_as_dollars(cents) ==
    "$" \o Grouped(cents \div 100) \o "." \o Pad(cents % 100, 2)

RECURSIVE TextLines(_)
TextLines(ls) ==
    IF ls = <<>> THEN ""
    ELSE " " \o ls[1].play_name \o ": " \o format_as_dollars(ls[1].amount)
         \o " (" \o ToString(ls[1].seats) \o " seats)\n"
         \o TextLines(Tail(ls))

render_as_text(statement) ==
    "Statement for " \o statement.customer \o "\n"
    \o TextLines(statement.statement_lines)
    \o "Amount owed is " \o format_as_dollars(Statement_total(statement)) \o "\n"
    \o "You earned " \o ToString(statement.credits) \o " credits\n"

RECURSIVE HtmlLines(_, _)
HtmlLines(statement, ls) ==
    IF ls = <<>> THEN ""
    ELSE " <tr><td>" \o ls[1].play_name \o "</td><td>"
         \o ToString(ls[1].seats) \o "</td>"
         \o "<td>" \o format_as_dollars(Statement_total(statement))
         \o "</td></tr>\n"
         \o HtmlLines(statement, Tail(ls))

render_as_html(statement) ==
    "<h1>Statement for " \o statement.customer \o "</h1>\n"
    \o "<table>\n"
    \o "<tr><th>play</th><th>seats</th><th>cost</th></tr>\n"
    \o HtmlLines(statement, statement.statement_lines)
    \o "</table>\n"
    \o "<p>Amount owed is <em>"
    \o format_as_dollars(Statement_total(statement)) \o "</em></p>\n"
    \o "<p>You earned <em>" \o ToString(statement.credits) \o "</em> credits</p>"

----------------------------------------------------------------------------
(* calculate, statement, html_statement as a state machine *)

RulesIdle ==
    /\ rkind = ""
    /\ ra = 0
    /\ rb = 0
    /\ rop = ""
    /\ rva = 0
    /\ rvb = 0

Init ==
    /\ \E types \in Catalogs : plays = CatalogOf(types)
    /\ \E perfs \in PerformanceLists :
          invoice = [customer |-> "BigCo", performances |-> perfs]
    /\ entry = ""
    /\ pc = "start"
    /\ idx = 0
    /\ total = <<<<>>, 0>>
    /\ stmt = <<>>
    /\ err = <<>>
    /\ output = <<>>
    /\ RulesIdle

\* The caller invokes calculate, statement or html_statement; reduce starts
\* with the initial value ([], 0) and the generator before the first item.
Call ==
    /\ pc = "start"
    /\ \E e \in EntryPoints : entry' = e
    /\ pc' = "reduce"
    /\ idx' = 1
    /\ total' = <<<<>>, 0>>
    /\ UNCHANGED <<plays, invoice, stmt, err, output, ruleVars>>

NextStrategy == billing_strategy(plays, invoice.performances[idx])

\* reduce pulls the next strategy from the generator and folds it in.
StepOk ==
    /\ pc = "reduce"
    /\ idx <= Len(invoice.performances)
    /\ NextStrategy.ok
    /\ total' = reduce_function(total, NextStrategy.value)
    /\ idx' = idx + 1
    /\ UNCHANGED <<plays, invoice, entry, pc, stmt, err, output, ruleVars>>

\* plays[perf["playID"]] raises KeyError; nothing catches it.
StepKeyError ==
    /\ pc = "reduce"
    /\ idx <= Len(invoice.performances)
    /\ ~NextStrategy.ok
    /\ NextStrategy.exc.type = "KeyError"
    /\ pc' = "raised"
    /\ err' = <<NextStrategy.exc>>
    /\ UNCHANGED <<plays, invoice, entry, idx, total, stmt, output, ruleVars>>

\* Variant: the ValueError is caught, remembered, and the fold goes on.
StepValueError_Continue ==
    /\ pc = "reduce"
    /\ idx <= Len(invoice.performances)
    /\ ~NextStrategy.ok
    /\ NextStrategy.exc.type = "ValueError"
    /\ err' = <<NextStrategy.exc>>
    /\ idx' = idx + 1
    /\ UNCHANGED <<plays, invoice, entry, pc, total, stmt, output, ruleVars>>

\* the match statement's default case raises ValueError; nothing catches it.
StepValueError ==
    /\ pc = "reduce"
    /\ idx <= Len(invoice.performances)
    /\ ~NextStrategy.ok
    /\ NextStrategy.exc.type = "ValueError"
    /\ pc' = "raised"
    /\ err' = <<NextStrategy.exc>>
    /\ UNCHANGED <<plays, invoice, entry, idx, total, stmt, output, ruleVars>>

\* The generator is exhausted: calculate returns the Statement.
Return ==
    /\ pc = "reduce"
    /\ idx > Len(invoice.performances)
    /\ stmt' = <<Statement(invoice.customer, total[1], total[2])>>
    /\ pc' = IF entry = "calculate" THEN "done" ELSE "render"
    /\ UNCHANGED <<plays, invoice, entry, idx, total, err, output, ruleVars>>

RenderText ==
    /\ pc = "render"
    /\ entry = "statement"
    /\ output' = <<render_as_text(stmt[1])>>
    /\ pc' = "done"
    /\ UNCHANGED <<plays, invoice, entry, idx, total, stmt, err, ruleVars>>

RenderHtml ==
    /\ pc = "render"
    /\ entry = "html_statement"
    /\ output' = <<render_as_html(stmt[1])>>
    /\ pc' = "done"
    /\ UNCHANGED <<plays, invoice, entry, idx, total, stmt, err, ruleVars>>

Next ==
    \/ Call
    \/ StepOk
    \/ StepKeyError
    \/ StepValueError
    \/ Return
    \/ RenderText
    \/ RenderHtml

Spec == Init /\ [][Next]_vars

----------------------------------------------------------------------------
(* The pricing rules on their own: one strategy class, two audiences *)

StrategyClasses == {"TragedyBilling", "ComedyBilling"}

StrategyAt(kind, a) ==
    BillingStrategy(kind,
                    [name |-> "Hamlet",
                     type |-> IF kind = "TragedyBilling" THEN "tragedy" ELSE "comedy"],
                    [playID |-> "hamlet", audience |-> a])

CalcIdle ==
    /\ plays = <<>>
    /\ invoice = [customer |-> "", performances |-> <<>>]
    /\ entry = ""
    /\ pc = "rules"
    /\ idx = 0
    /\ total = <<<<>>, 0>>
    /\ stmt = <<>>
    /\ err = <<>>
    /\ output = <<>>

InitRules ==
    /\ CalcIdle
    /\ rkind \in StrategyClasses
    /\ ra \in 0..MaxAudience
    /\ rb \in 0..MaxAudience
    /\ rop = ""
    /\ rva = 0
    /\ rvb = 0

ApplyAmount ==
    /\ rop = ""
    /\ rop' = "amount"
    /\ rva' = amount(StrategyAt(rkind, ra))
    /\ rvb' = amount(StrategyAt(rkind, rb))
    /\ UNCHANGED <<calcVars, rkind, ra, rb>>

ApplyCredits ==
    /\ rop = ""
    /\ rop' = "credits"
    /\ rva' = credits(StrategyAt(rkind, ra))
    /\ rvb' = credits(StrategyAt(rkind, rb))
    /\ UNCHANGED <<calcVars, rkind, ra, rb>>

NextRules ==
    \/ ApplyAmount
    \/ ApplyCredits

SpecRules == InitRules /\ [][NextRules]_vars

----------------------------------------------------------------------------
(* The pricing contract, written out independently of the strategies *)

ContractTragedyAmount(a) ==
    IF a > 30 THEN 40000 + 1000 * (a - 30) ELSE 40000

ContractComedyAmount(a) ==
    30000 + 300 * a + (IF a > 20 THEN 10000 + 500 * (a - 20) ELSE 0)

ContractBaseCredits(a) == IF a - 30 > 0 THEN a - 30 ELSE 0

\* floor(a / 5): the q with 5q <= a < 5q + 5
ContractFifth(a) == CHOOSE q \in 0..a : 5 * q <= a /\ a < 5 * q + 5

ContractAmount(type, a) ==
    IF type = "tragedy" THEN ContractTragedyAmount(a) ELSE ContractComedyAmount(a)

ContractCredits(type, a) ==
    IF type = "tragedy" THEN ContractBaseCredits(a)
    ELSE ContractBaseCredits(a) + ContractFifth(a)

Perfs == invoice.performances
PerfIndexes == 1..Len(Perfs)

KnownPlay(i) == Perfs[i].playID \in DOMAIN plays
KnownGenre(i) == KnownPlay(i) /\ plays[Perfs[i].playID].type \in {"tragedy", "comedy"}
UnknownGenreAt(i) == KnownPlay(i) /\ ~KnownGenre(i)
Fails(i) == ~KnownGenre(i)

\* The error names of the taxonomy, as the exceptions Python raises.
IsUnknownPlay(e, i) == e.type = "KeyError" /\ e.arg = Perfs[i].playID
IsUnknownGenre(e, i) ==
    /\ e.type = "ValueError"
    /\ e.arg = "unknown type: " \o plays[Perfs[i].playID].type

FirstFailing(i) == i \in PerfIndexes /\ Fails(i) /\ \A j \in 1..(i - 1) : ~Fails(j)

----------------------------------------------------------------------------
(* Claims about the pricing rules (SpecRules) *)

\* C1: the tragedy amount is 40000 + 1000*(a-30) for a > 30 and exactly
\* 40000 for a <= 30; never below 40000, constant up to 30, strictly
\* increasing above 30.
C1_TragedyAmount ==
    (rop = "amount" /\ rkind = "TragedyBilling") =>
        /\ rva = ContractTragedyAmount(ra)
        /\ rva >= 40000
        /\ (ra <= 30) => (rva = 40000)
        /\ (ra <= 30 /\ rb <= 30) => (rva = rvb)
        /\ (30 < ra /\ ra < rb) => (rva < rvb)

C1_Witness ==
    /\ rop = "amount" /\ rkind = "TragedyBilling"
    /\ ra = 31 /\ rb = 55 /\ rva = 41000 /\ rvb = 65000

\* C2: the comedy amount is 30000 + 300*a, plus 10000 + 500*(a-20) when
\* a > 20 and nothing more when a <= 20; 30000 at a = 0, 58000 at a = 35.
C2_ComedyAmount ==
    (rop = "amount" /\ rkind = "ComedyBilling") =>
        /\ rva = ContractComedyAmount(ra)
        /\ (ra <= 20) => (rva = 30000 + 300 * ra)
        /\ (ra = 0) => (rva = 30000)
        /\ (ra = 35) => (rva = 58000)

C2_Witness ==
    /\ rop = "amount" /\ rkind = "ComedyBilling"
    /\ ra = 35 /\ rva = 58000 /\ rb = 20 /\ rvb = 36000

\* C3: the credits of one performance are max(a-30, 0) for a tragedy and
\* max(a-30, 0) + floor(a/5) for a comedy, the bonus also when a <= 30.
C3_Credits ==
    (rop = "credits") =>
        /\ (rkind = "TragedyBilling") => (rva = ContractBaseCredits(ra))
        /\ (rkind = "ComedyBilling") =>
              (rva = ContractBaseCredits(ra) + ContractFifth(ra))
        /\ (rkind = "ComedyBilling" /\ ra <= 30) => (rva = ContractFifth(ra))

C3_Witness ==
    /\ rop = "credits" /\ rkind = "ComedyBilling"
    /\ ra = 29 /\ rva = 5 /\ rb = 35 /\ rvb = 12

\* C9: the comedy amount is strictly increasing in the audience, also from
\* 20 to 21, and the comedy credits are never below max(a-30, 0).
C9_ComedyMonotone ==
    /\ (rop = "amount" /\ rkind = "ComedyBilling" /\ ra < rb) => (rva < rvb)
    /\ (rop = "credits" /\ rkind = "ComedyBilling") =>
          (rva >= ContractBaseCredits(ra))

C9_Witness ==
    /\ rop = "amount" /\ rkind = "ComedyBilling"
    /\ ra = 20 /\ rb = 21 /\ rva = 36000 /\ rvb = 46800

----------------------------------------------------------------------------
(* Claims about calculate (Spec) *)

RECURSIVE SumContractCredits(_)
SumContractCredits(i) ==
    IF i = 0 THEN 0
    ELSE ContractCredits(plays[Perfs[i].playID].type, Perfs[i].audience)
         + SumContractCredits(i - 1)

\* C4: when every performance references a catalogued play of a known
\* genre, calculate returns a Statement whose credits are the sum of the
\* rule credits of all performances, 0 for an invoice without performances.
C4_TotalCredits ==
    (\A i \in PerfIndexes : KnownGenre(i)) =>
        /\ pc # "raised"
        /\ (pc \in {"render", "done"}) =>
              /\ stmt # <<>>
              /\ stmt[1].credits = SumContractCredits(Len(Perfs))
              /\ (Perfs = <<>>) => (stmt[1].credits = 0)

C4_Witness ==
    /\ pc = "done"
    /\ stmt # <<>>
    /\ Len(Perfs) = 3
    /\ Perfs[1] = Perfs[3]
    /\ Perfs[1].playID = "as-like" /\ Perfs[1].audience = 35
    /\ KnownGenre(1) /\ KnownGenre(2)
    /\ plays["as-like"].type = "comedy"
    /\ Perfs[2].playID = "hamlet" /\ Perfs[2].audience = 35
    /\ plays["hamlet"].type = "tragedy"
    /\ stmt[1].credits = 29

\* C5: a Statement calculate returns has one line per performance, in
\* invoice order: line i has the name of performance i's play, the amount of
\* that play's rule at performance i's audience, and that audience as seats.
C5_LinesInOrder ==
    (stmt # <<>>) =>
        /\ Len(stmt[1].statement_lines) = Len(Perfs)
        /\ \A i \in PerfIndexes :
              /\ stmt[1].statement_lines[i].play_name = plays[Perfs[i].playID].name
              /\ stmt[1].statement_lines[i].amount =
                    ContractAmount(plays[Perfs[i].playID].type, Perfs[i].audience)
              /\ stmt[1].statement_lines[i].seats = Perfs[i].audience

C5_Witness ==
    /\ stmt # <<>>
    /\ Len(Perfs) = 3
    /\ stmt[1].statement_lines =
          << [play_name |-> "Hamlet", amount |-> 45000, seats |-> 35],
             [play_name |-> "As You Like It", amount |-> 58000, seats |-> 35],
             [play_name |-> "Hamlet", amount |-> 40000, seats |-> 0] >>

\* C6: an invoice with a performance whose playID is not in the catalog
\* never yields a Statement or a rendered string, and when calculate
\* reaches such a performance it fails with UnknownPlay (KeyError of that
\* playID): no default play, no skipping.
C6_UnknownPlay ==
    /\ (\E i \in PerfIndexes : ~KnownPlay(i)) =>
          /\ stmt = <<>>
          /\ output = <<>>
          /\ pc \notin {"render", "done"}
    /\ \A i \in PerfIndexes :
          (FirstFailing(i) /\ ~KnownPlay(i)) =>
              /\ idx <= i
              /\ Len(total[1]) < i
              /\ (pc = "raised") =>
                    (err # <<>> /\ IsUnknownPlay(err[1], i) /\ idx = i)

C6_Witness ==
    /\ pc = "raised"
    /\ Len(Perfs) = 2
    /\ KnownGenre(1)
    /\ ~KnownPlay(2)
    /\ err = << [type |-> "KeyError", arg |-> "as-like"] >>
    /\ stmt = <<>>

\* C7: when the play of the performance calculate reaches has a genre
\* other than tragedy or comedy, the selection fails with UnknownGenre
\* (ValueError "unknown type: <tag>"), which reaches the caller of
\* calculate, statement and html_statement as raised; no rule is used as a
\* fallback, and an invoice with such a performance never yields a Statement.
C7_UnknownGenre ==
    /\ (\E i \in PerfIndexes : UnknownGenreAt(i)) =>
          /\ stmt = <<>>
          /\ output = <<>>
          /\ pc \notin {"render", "done"}
    /\ \A i \in PerfIndexes :
          (FirstFailing(i) /\ UnknownGenreAt(i)) =>
              /\ idx <= i
              /\ Len(total[1]) < i
              /\ (pc = "raised") =>
                    (err # <<>> /\ IsUnknownGenre(err[1], i) /\ idx = i)

C7_Witness ==
    /\ pc = "raised"
    /\ entry = "html_statement"
    /\ Len(Perfs) = 1
    /\ UnknownGenreAt(1)
    /\ plays[Perfs[1].playID].type = "history"
    /\ err = << [type |-> "ValueError", arg |-> "unknown type: history"] >>
    /\ stmt = <<>>
    /\ output = <<>>

\* C8: when several performances would fail, calculate stops at the first
\* failing one in invoice order and reports its error; later performances
\* are not processed and nothing of the earlier ones is returned.
C8_FirstFailureAborts ==
    \A i \in PerfIndexes :
        FirstFailing(i) =>
            /\ idx <= i
            /\ stmt = <<>>
            /\ output = <<>>
            /\ pc \in {"start", "reduce", "raised"}
            /\ (pc = "raised") =>
                  /\ idx = i
                  /\ err # <<>>
                  /\ IF KnownPlay(i) THEN IsUnknownGenre(err[1], i)
                                     ELSE IsUnknownPlay(err[1], i)

C8_Witness ==
    /\ pc = "raised"
    /\ Len(Perfs) = 3
    /\ KnownGenre(1)
    /\ UnknownGenreAt(2)
    /\ ~KnownPlay(3)
    /\ idx = 2
    /\ total[1] # <<>>
    /\ err = << [type |-> "ValueError", arg |-> "unknown type: history"] >>
    /\ stmt = <<>>

----------------------------------------------------------------------------
(* Claims about the renderers (Spec) *)

RECURSIVE ExpectedTextRows(_)
ExpectedTextRows(ls) ==
    IF ls = <<>> THEN ""
    ELSE " " \o ls[1].play_name \o ": " \o format_as_dollars(ls[1].amount)
         \o " (" \o ToString(ls[1].seats) \o " seats)\n"
         \o ExpectedTextRows(Tail(ls))

RECURSIVE ExpectedHtmlRows(_)
ExpectedHtmlRows(ls) ==
    IF ls = <<>> THEN ""
    ELSE " <tr><td>" \o ls[1].play_name \o "</td><td>"
         \o ToString(ls[1].seats) \o "</td>"
         \o "<td>" \o format_as_dollars(ls[1].amount) \o "</td></tr>\n"
         \o ExpectedHtmlRows(Tail(ls))

ExpectedText(s) ==
    "Statement for " \o s.customer \o "\n"
    \o ExpectedTextRows(s.statement_lines)
    \o "Amount owed is " \o format_as_dollars(SumAmounts(s.statement_lines)) \o "\n"
    \o "You earned " \o ToString(s.credits) \o " credits\n"

ExpectedHtml(s) ==
    "<h1>Statement for " \o s.customer \o "</h1>\n"
    \o "<table>\n"
    \o "<tr><th>play</th><th>seats</th><th>cost</th></tr>\n"
    \o ExpectedHtmlRows(s.statement_lines)
    \o "</table>\n"
    \o "<p>Amount owed is <em>"
    \o format_as_dollars(SumAmounts(s.statement_lines)) \o "</em></p>\n"
    \o "<p>You earned <em>" \o ToString(s.credits) \o "</em> credits</p>"

\* C10: both renderers show one row per statement line in statement order,
\* each row with that line's own amount, name and seats, and the amount owed
\* once at the end as the sum of the line amounts.
C10_RowsShowLineAmounts ==
    (pc = "done" /\ output # <<>>) =>
        /\ (entry = "statement") => (output[1] = ExpectedText(stmt[1]))
        /\ (entry = "html_statement") => (output[1] = ExpectedHtml(stmt[1]))

====
